---------------------------- MODULE Spec2Model ----------------------------
(***************************************************************************)
(* The shard session manager of tonsoe: DiscordGatewayClient::new_with_shards *)
(* (src/src/websocket.rs), the startup task it spawns, the per-shard       *)
(* handshake of add_shard_to_map, and the three loops of every shard       *)
(* (src/src/gateway.rs, process_gateway_send_commands).                    *)
(*                                                                         *)
(* Time is in milliseconds.  The clock `now` only moves to the deadline of *)
(* a pending tokio sleep: a sleep ends no earlier than its deadline and a  *)
(* task may be resumed arbitrarily later.                                  *)
(***************************************************************************)
EXTENDS Integers, Sequences, FiniteSets, TLC

(***************************************************************************)
(* Bounds of the model.                                                    *)
(***************************************************************************)
\* largest shard count the metadata recommends or the user sets
MaxShards == 3
\* largest session_start_limit.max_concurrency the metadata reports
MaxConcurrency == 2
\* heartbeat_interval values of a Hello are 0 and IntervalUnit (milliseconds)
IntervalUnit == 3000
\* the jitter rand::random::<f32>() is one of k / JitterDen, 0 <= k < JitterDen
JitterDen == 2
\* heartbeats one shard emits before the model stops following its loop
MaxHeartbeats == 2
\* largest sequence number ("s") the server puts on an inbound frame
MaxSeq == 2

(***************************************************************************)
(* Program constants.                                                      *)
(***************************************************************************)
\* tokio::time::Duration::from_secs(5)
CooldownSecs == 5
\* mpsc::channel(32)
SinkChannelCapacity == 32
\* Payload::new(2, shard_identify)
OpIdentify == 2
\* Payload::new(1, previous_sequence_number)
OpHeartbeat == 1

ShardIds == 0 .. (MaxShards - 1)

\* Option<T>: None is the empty set, Some(x) is {x}
None == {}
Some(x) == {x}
Unwrap(o) == CHOOSE x \in o : TRUE

VARIABLES
    sharding_option,        \* Bot::sharding_option
    gateway_bot_response,   \* the GetGatewayBotResponse handed to new_with_shards
    http_response,          \* how the request for gateway/bot goes
    heartbeat_budget,       \* where the model stops counting a shard's heartbeats
    elevatePc,              \* position of Bot::elevate
    elevate_result,         \* what Bot::elevate returned
    mainPc,                 \* position of the caller of new_with_shards
    result,                 \* what new_with_shards returned
    shard_amount,           \* the resolved shard count captured by the startup task
    startupPc,              \* position of the spawned startup task
    shard_id,               \* loop variable of the startup task
    cooldownWake,           \* deadline of the startup task's bucket sleep
    hello_payload,          \* the decoded Hello of the shard being opened
    now,                    \* the clock, in milliseconds
    shard_map,              \* the ShardMap: shard index -> Gateway
    startupLog,             \* history: what the startup task did, in order
    panics,                 \* history: the panics raised, by task
    connection,             \* per shard: the websocket connection
    read_stream,            \* per shard: the read half
    sink_channel,           \* per shard: the mpsc queue of GatewayCommand
    connection_identifier,  \* per shard: the GatewayConnectionIdentifier
    sequence_identifier,    \* per shard: the shared AtomicU32
    heartbeat,              \* per shard: the task running Gateway::heartbeat
    receiver,               \* per shard: the task running recieve_gateway_events
    dispatcher,             \* per shard: the task running process_gateway_send_commands
    send_tasks,             \* per shard: the per-command send tasks, in dequeue order
    sink,                   \* per shard: the Mutex around the write half
    wire,                   \* per shard: what was written to the connection, in order
    emitted,                \* history, per shard: the heartbeats submitted (how many, the last)
    observed,               \* history, per shard: the last "s" the receiver task was handed
    first_item,             \* history, per shard: what the first next() on the read half yielded
    decode_history          \* history, per shard: has the receiver task been handed a frame that
                            \* does not decode, and a frame with an "s" after it

startupVars == <<mainPc, result, shard_amount, startupPc, shard_id, cooldownWake,
                 hello_payload, shard_map, startupLog>>
shardVars == <<connection, read_stream, sink_channel, connection_identifier,
               sequence_identifier, heartbeat, receiver, dispatcher, send_tasks,
               sink, wire, emitted, observed, first_item, decode_history>>
vars == <<sharding_option, gateway_bot_response, http_response, heartbeat_budget, elevatePc, elevate_result, now, panics, startupVars, shardVars>>

(***************************************************************************)
(* Wire envelopes.  An inbound frame is what the text of a websocket       *)
(* message parses to: json says whether it is JSON at all, op is the "op"  *)
(* member, hb the "heartbeat_interval" member of "d" (None when "d" has    *)
(* none), s the "s" member (None when null or absent).                     *)
(***************************************************************************)
HelloIntervals == {0, IntervalUnit}

HelloFrames == {[json |-> TRUE, op |-> 10, hb |-> Some(h), s |-> None] : h \in HelloIntervals}
\* a Dispatch (op 0) whose "d" happens to hold a heartbeat_interval member
HelloShapedFrames == {[json |-> TRUE, op |-> 0, hb |-> Some(IntervalUnit), s |-> Some(1)]}
\* Dispatch events carrying a sequence number, and a Heartbeat ACK carrying none
EventFrames == {[json |-> TRUE, op |-> 0, hb |-> None, s |-> Some(k)] : k \in 1 .. MaxSeq}
                  \cup {[json |-> TRUE, op |-> 11, hb |-> None, s |-> None]}
\* a message whose text is not JSON
MalformedFrames == {[json |-> FALSE, op |-> 0, hb |-> None, s |-> None]}
Frames == HelloFrames \cup HelloShapedFrames \cup EventFrames \cup MalformedFrames

\* what ReadSplitStream::next() can yield
StreamFrame(f) == [kind |-> "frame", frame |-> f]
StreamError == [kind |-> "error", frame |-> CHOOSE f \in MalformedFrames : TRUE]
StreamClosed == [kind |-> "closed", frame |-> CHOOSE f \in MalformedFrames : TRUE]

\* serde_json::from_str::<Payload<Hello>>: "op" and "d.heartbeat_interval" must
\* be there, "s" and "t" are optional; the value of "op" is not looked at.
DeserializeHello(f) ==
    IF f.json /\ f.hb # None
    THEN [ok |-> TRUE,
          payload |-> [opcode |-> f.op, data |-> [heartbeat_interval |-> Unwrap(f.hb)],
                       sequence_number |-> f.s]]
    ELSE [ok |-> FALSE,
          payload |-> [opcode |-> 0, data |-> [heartbeat_interval |-> 0],
                       sequence_number |-> None]]

\* read_deserialize_next_payload::<Payload<Hello>>
ReadDeserializeHello(item) ==
    IF item.kind = "frame" THEN DeserializeHello(item.frame)
    ELSE DeserializeHello(CHOOSE f \in MalformedFrames : TRUE)

\* Payload::new(opcode, data)
PayloadNew(opcode, data) ==
    [opcode |-> opcode, data |-> data, sequence_number |-> None]

\* mutant: every Identify names shard 0
IdentifyPayloadFirstShard(id, amount) ==
    [opcode |-> OpIdentify, data |-> <<0, amount>>, sequence_number |-> None]
\* the Identify payload of one shard (token, properties and intents are the
\* same for every shard and left out)
IdentifyPayload(id, amount) == PayloadNew(OpIdentify, <<id, amount>>)
IdentifyCommand(id, amount) == [cmd |-> "Identify", payload |-> IdentifyPayload(id, amount)]
HeartbeatCommand(seq) == [cmd |-> "Heartbeat", payload |-> PayloadNew(OpHeartbeat, <<seq>>)]

(***************************************************************************)
(* new_with_shards                                                         *)
(***************************************************************************)
\* mutant: the amount == 0 check of SetAmount is missing
ResolveShardAmountUnchecked(option, response) ==
    IF option.kind = "Automatic"
    THEN [ok |-> TRUE, amount |-> response.shards]
    ELSE [ok |-> TRUE, amount |-> option.amount]

\* mutant: a count of 0 is refused under either policy
ResolveShardAmountNoZero(option, response) ==
    IF option.kind = "Automatic"
    THEN IF response.shards = 0
         THEN [ok |-> FALSE, amount |-> 0]
         ELSE [ok |-> TRUE, amount |-> response.shards]
    ELSE IF option.amount = 0
         THEN [ok |-> FALSE, amount |-> 0]
         ELSE [ok |-> TRUE, amount |-> option.amount]

\* the match on bot.sharding_option
ResolveShardAmount(option, response) ==
    IF option.kind = "Automatic"
    THEN [ok |-> TRUE, amount |-> response.shards]
    ELSE IF option.amount = 0
         THEN [ok |-> FALSE, amount |-> 0]
         ELSE [ok |-> TRUE, amount |-> option.amount]

\* mutant: shard_id != 0 is tested first, and cuts the remainder short for shard 0
BucketTestPanicsAfterFirst(id, max_concurrency) == max_concurrency = 0 /\ id # 0
\* the bucket test of the startup loop; its left operand is evaluated first,
\* so a max_concurrency of 0 divides by zero whatever shard_id is
BucketTestPanics(id, max_concurrency) == max_concurrency = 0
\* mutant: the shard_id != 0 conjunct is missing
BucketWaitAlsoFirst(id, max_concurrency) ==
    /\ max_concurrency # 0
    /\ id % max_concurrency = 0

\* mutant: the wait comes after the last shard of a bucket, not before the first
BucketWaitOffByOne(id, max_concurrency) ==
    /\ max_concurrency # 0
    /\ (id + 1) % max_concurrency = 0
    /\ id # 0

BucketWait(id, max_concurrency) ==
    /\ max_concurrency # 0
    /\ id % max_concurrency = 0
    /\ id # 0

CooldownMillis == CooldownSecs * 1000

\* an entry of startupLog; ms is the time a finished sleep took, else 0
Log(ev, id) == [ev |-> ev, shard |-> id, ms |-> 0]
LogWoke(id, since) == [ev |-> "woke", shard |-> id, ms |-> now - since]
Panic(task, id) == [task |-> task, shard |-> id]

ShardInit ==
    /\ connection = [i \in ShardIds |-> "none"]
    /\ read_stream = [i \in ShardIds |-> [ended |-> FALSE]]
    /\ sink_channel = [i \in ShardIds |-> <<>>]
    /\ connection_identifier = [i \in ShardIds |-> None]
    /\ sequence_identifier = [i \in ShardIds |-> 0]
    /\ heartbeat = [i \in ShardIds |->
           [pc |-> "none", previous_sequence_number |-> 0, wake |-> 0, delay |-> 0, since |-> 0]]
    /\ receiver = [i \in ShardIds |-> "none"]
    /\ dispatcher = [i \in ShardIds |-> "none"]
    /\ send_tasks = [i \in ShardIds |-> <<>>]
    /\ sink = [i \in ShardIds |-> [holder |-> 0, waiters |-> <<>>]]
    /\ wire = [i \in ShardIds |-> <<>>]
    /\ emitted = [i \in ShardIds |-> [count |-> 0, last |-> None]]
    /\ observed = [i \in ShardIds |-> None]
    /\ first_item = [i \in ShardIds |-> None]
    /\ decode_history = [i \in ShardIds |-> "clean"]

ShardingOptions ==
    {[kind |-> "Automatic", amount |-> 0]}
        \cup {[kind |-> "SetAmount", amount |-> a] : a \in 0 .. MaxShards}
GatewayBotResponses ==
    [shards : 0 .. MaxShards, max_concurrency : 0 .. MaxConcurrency, url_ok : BOOLEAN]

\* how the GET gateway/bot of elevate goes: client says whether
\* DiscordHttpClient::new succeeded, sent whether the request got an answer,
\* status is the answer's status code, body says whether the answer's body
\* deserializes into a GetGatewayBotResponse
HttpResponses ==
    [client : BOOLEAN, sent : BOOLEAN, status : {200, 401, 500}, body : BOOLEAN]
HttpOk == [client |-> TRUE, sent |-> TRUE, status |-> 200, body |-> TRUE]

\* the state before elevate is called
InitState ==
    /\ sharding_option \in ShardingOptions
    /\ gateway_bot_response \in GatewayBotResponses
    /\ http_response \in HttpResponses
    /\ elevatePc = "request"
    /\ elevate_result = "none"
    /\ mainPc = "call"
    /\ result = "none"
    /\ shard_amount = 0
    /\ startupPc = "none"
    /\ shard_id = 0
    /\ cooldownWake = 0
    /\ hello_payload = None
    /\ now = 0
    /\ shard_map = [k \in {} |-> 0]
    /\ startupLog = <<>>
    /\ panics = {}
    /\ ShardInit

Init ==
    /\ InitState
    /\ heartbeat_budget = MaxHeartbeats

\* mutant: an unauthorized answer is handed back like any other
HandleInboundRequestAnyStatus(response) ==
    IF ~response.sent THEN "Err" ELSE "Ok"

\* the StatusCode::UNAUTHORIZED arm of handle_channel_inbound_requests sends
\* Err back; any other status sends Ok(response) back
HandleInboundRequest(response) ==
    IF ~response.sent THEN "Err"
    ELSE IF response.status = 401 THEN "Err"
    ELSE "Ok"

\* DiscordHttpRequest::request: the answer, then its body as JSON
Request(response) ==
    IF HandleInboundRequest(response) = "Err" THEN "Err"
    ELSE IF ~response.body THEN "Err"
    ELSE "Ok"

\* Bot::elevate up to the call of new_with_shards: the http client, the
\* request for gateway/bot, each with a ? on its result
Elevate ==
    /\ elevatePc = "request"
    /\ IF ~http_response.client \/ Request(http_response) = "Err"
       THEN elevatePc' = "returned" /\ elevate_result' = "Err"
       ELSE elevatePc' = "new_with_shards" /\ UNCHANGED elevate_result
    /\ UNCHANGED <<sharding_option, gateway_bot_response, http_response, heartbeat_budget, now, panics,
                   startupVars, shardVars>>

\* mutant: new_with_shards starts the startup task and returns only when
\* that task is through
NewWithShardsAwaitsStartup ==
    /\ elevatePc = "new_with_shards"
    /\ mainPc = "call"
    /\ LET r == ResolveShardAmount(sharding_option, gateway_bot_response) IN
       IF ~r.ok \/ ~gateway_bot_response.url_ok
       THEN /\ mainPc' = "returned"
            /\ result' = "Err"
            /\ elevatePc' = "returned" /\ elevate_result' = "Err"
            /\ UNCHANGED <<shard_amount, startupPc>>
       ELSE IF startupPc = "none"
       THEN /\ shard_amount' = r.amount
            /\ startupPc' = "loop"
            /\ UNCHANGED <<mainPc, result, elevatePc, elevate_result>>
       ELSE /\ startupPc = "done"
            /\ mainPc' = "returned"
            /\ result' = "Ok"
            /\ elevatePc' = "sleep"
            /\ UNCHANGED <<elevate_result, shard_amount, startupPc>>
    /\ UNCHANGED <<sharding_option, gateway_bot_response, http_response, heartbeat_budget, now, panics,
                   shard_id, cooldownWake, hello_payload, shard_map, startupLog, shardVars>>

\* new_with_shards, from the call to its return: it awaits nothing; on Err
\* elevate returns the error, on Ok it goes to sleep
NewWithShards ==
    /\ elevatePc = "new_with_shards"
    /\ mainPc = "call"
    /\ mainPc' = "returned"
    /\ LET r == ResolveShardAmount(sharding_option, gateway_bot_response) IN
       IF ~r.ok
       THEN /\ result' = "Err"
            /\ elevatePc' = "returned" /\ elevate_result' = "Err"
            /\ UNCHANGED <<shard_amount, startupPc>>
       ELSE IF ~gateway_bot_response.url_ok
       THEN /\ result' = "Err"
            /\ elevatePc' = "returned" /\ elevate_result' = "Err"
            /\ UNCHANGED <<shard_amount, startupPc>>
       ELSE /\ result' = "Ok"
            /\ elevatePc' = "sleep" /\ UNCHANGED elevate_result
            /\ shard_amount' = r.amount
            /\ startupPc' = "loop"
    /\ UNCHANGED <<sharding_option, gateway_bot_response, http_response, heartbeat_budget, now, panics,
                   shard_id, cooldownWake, hello_payload, shard_map, startupLog, shardVars>>

(***************************************************************************)
(* The startup task: for shard_id in 0..shard_amount { ... }               *)
(***************************************************************************)
startupFrame == <<sharding_option, gateway_bot_response, http_response, heartbeat_budget, elevatePc, elevate_result, mainPc, result, shard_amount>>

\* the head of one iteration: the loop test, the Identify payload, the bucket test
StartupLoop ==
    /\ startupPc = "loop"
    /\ IF shard_id >= shard_amount
       THEN /\ startupPc' = "done"
            /\ UNCHANGED <<cooldownWake, startupLog, panics>>
       ELSE IF BucketTestPanics(shard_id, gateway_bot_response.max_concurrency)
       THEN /\ startupPc' = "panicked"
            /\ panics' = panics \cup {Panic("startup", shard_id)}
            /\ startupLog' = Append(startupLog, Log("panic", shard_id))
            /\ UNCHANGED cooldownWake
       ELSE IF BucketWait(shard_id, gateway_bot_response.max_concurrency)
       THEN /\ startupPc' = "cooldown"
            /\ cooldownWake' = now + CooldownMillis
            /\ startupLog' = Append(startupLog, Log("sleep", shard_id))
            /\ UNCHANGED panics
       ELSE /\ startupPc' = "connect"
            /\ UNCHANGED <<cooldownWake, startupLog, panics>>
    /\ UNCHANGED <<startupFrame, shard_id, hello_payload, shard_map, now, shardVars>>

\* mutant: the sleep is over only when the clock has gone past the wake time
StartupCooldownOverLate ==
    /\ startupPc = "cooldown"
    /\ now > cooldownWake
    /\ startupPc' = "connect"
    /\ startupLog' = Append(startupLog, LogWoke(shard_id, cooldownWake - CooldownMillis))
    /\ UNCHANGED <<startupFrame, shard_id, cooldownWake, hello_payload, shard_map,
                   now, panics, shardVars>>

\* tokio::time::sleep(5 s) is over
StartupCooldownOver ==
    /\ startupPc = "cooldown"
    /\ now >= cooldownWake
    /\ startupPc' = "connect"
    /\ startupLog' = Append(startupLog, LogWoke(shard_id, cooldownWake - CooldownMillis))
    /\ UNCHANGED <<startupFrame, shard_id, cooldownWake, hello_payload, shard_map,
                   now, panics, shardVars>>

\* mutant: a shard whose connect failed is passed over and the loop goes on
AddShardConnectContinue(ok) ==
    /\ startupPc = "connect"
    /\ sink_channel' = [sink_channel EXCEPT ![shard_id] = <<>>]
    /\ IF ok
       THEN /\ connection' = [connection EXCEPT ![shard_id] = "open"]
            /\ startupPc' = "hello"
            /\ startupLog' = startupLog \o <<Log("connect", shard_id)>>
            /\ UNCHANGED shard_id
       ELSE /\ startupPc' = "loop"
            /\ shard_id' = shard_id + 1
            /\ startupLog' = startupLog \o
                   <<Log("connect", shard_id), Log("connect_failed", shard_id)>>
            /\ UNCHANGED connection
    /\ UNCHANGED <<startupFrame, cooldownWake, hello_payload, shard_map, now, panics,
                   read_stream, connection_identifier, sequence_identifier, heartbeat,
                   receiver, dispatcher, send_tasks, sink, wire, emitted, observed,
                   first_item, decode_history>>

\* add_shard_to_map up to the split: the two channels and connect_async,
\* whose failure is an expect
AddShardConnect(ok) ==
    /\ startupPc = "connect"
    /\ sink_channel' = [sink_channel EXCEPT ![shard_id] = <<>>]
    /\ IF ok
       THEN /\ connection' = [connection EXCEPT ![shard_id] = "open"]
            /\ startupPc' = "hello"
            /\ startupLog' = startupLog \o <<Log("connect", shard_id)>>
            /\ UNCHANGED panics
       ELSE /\ startupPc' = "panicked"
            /\ panics' = panics \cup {Panic("startup", shard_id)}
            /\ startupLog' = startupLog \o
                   <<Log("connect", shard_id), Log("connect_failed", shard_id)>>
            /\ UNCHANGED connection
    /\ UNCHANGED <<startupFrame, shard_id, cooldownWake, hello_payload, shard_map, now,
                   read_stream, connection_identifier, sequence_identifier, heartbeat,
                   receiver, dispatcher, send_tasks, sink, wire, emitted, observed,
                   first_item, decode_history>>

\* what next() yields on shard i's read half: nothing once the stream has ended
\* or the connection is closed, else a frame or a transport error
StreamItems(i) ==
    IF read_stream[i].ended \/ connection[i] # "open"
    THEN {StreamClosed}
    ELSE {StreamFrame(f) : f \in Frames} \cup {StreamError}

\* the read half after next() yielded item: an error or a close ends the stream
StreamAfter(rs, item) ==
    IF item.kind = "frame" THEN rs ELSE [rs EXCEPT !.ended = TRUE]

\* history: the last "s" carried by a frame handed to the receiver task
ObservedAfter(o, item) ==
    IF item.kind = "frame" /\ item.frame.json /\ item.frame.s # None
    THEN item.frame.s ELSE o

\* history: "failed" once the receiver task was handed a frame that does not
\* decode, "recovered" once it was handed a frame with an "s" after that
DecodeHistoryAfter(h, item) ==
    IF item.kind # "frame" THEN h
    ELSE IF ~item.frame.json THEN "failed"
    ELSE IF h = "failed" /\ item.frame.s # None THEN "recovered"
    ELSE h

\* mutant: a failed Hello is logged and the loop goes on with the next shard
AddShardHelloContinue(item) ==
    /\ startupPc = "hello"
    /\ item \in StreamItems(shard_id)
    /\ read_stream' = [read_stream EXCEPT ![shard_id] = StreamAfter(@, item)]
    /\ first_item' = [first_item EXCEPT ![shard_id] = Some(item)]
    /\ LET r == ReadDeserializeHello(item) IN
       IF r.ok
       THEN /\ hello_payload' = Some(r.payload)
            /\ startupPc' = "identify"
            /\ startupLog' = Append(startupLog, Log("hello", shard_id))
            /\ UNCHANGED <<panics, shard_id>>
       ELSE /\ startupPc' = "loop"
            /\ shard_id' = shard_id + 1
            /\ panics' = panics \cup {Panic("startup", shard_id)}
            /\ startupLog' = Append(startupLog, Log("hello_failed", shard_id))
            /\ UNCHANGED hello_payload
    /\ UNCHANGED <<startupFrame, cooldownWake, shard_map, now, connection,
                   sink_channel, connection_identifier, sequence_identifier, heartbeat,
                   receiver, dispatcher, send_tasks, sink, wire, emitted, observed, decode_history>>

\* mutant: the dispatcher is spawned before the Hello is read
AddShardHelloSpawnsFirst(item) ==
    /\ startupPc = "hello"
    /\ item \in StreamItems(shard_id)
    /\ read_stream' = [read_stream EXCEPT ![shard_id] = StreamAfter(@, item)]
    /\ first_item' = [first_item EXCEPT ![shard_id] = Some(item)]
    /\ dispatcher' = [dispatcher EXCEPT ![shard_id] = "recv"]
    /\ LET r == ReadDeserializeHello(item) IN
       IF r.ok
       THEN /\ hello_payload' = Some(r.payload)
            /\ startupPc' = "identify"
            /\ startupLog' = Append(startupLog, Log("hello", shard_id))
            /\ UNCHANGED panics
       ELSE /\ startupPc' = "panicked"
            /\ panics' = panics \cup {Panic("startup", shard_id)}
            /\ startupLog' = Append(startupLog, Log("hello_failed", shard_id))
            /\ UNCHANGED hello_payload
    /\ UNCHANGED <<startupFrame, shard_id, cooldownWake, shard_map, now, connection,
                   sink_channel, connection_identifier, sequence_identifier, heartbeat,
                   receiver, send_tasks, sink, wire, emitted, observed, decode_history>>

\* read_deserialize_next_payload::<Payload<Hello>>().await.context(..)?  The Err
\* goes back to the loop, whose expect("Attempted to spawn shard") panics.
AddShardHello(item) ==
    /\ startupPc = "hello"
    /\ item \in StreamItems(shard_id)
    /\ read_stream' = [read_stream EXCEPT ![shard_id] = StreamAfter(@, item)]
    /\ first_item' = [first_item EXCEPT ![shard_id] = Some(item)]
    /\ LET r == ReadDeserializeHello(item) IN
       IF r.ok
       THEN /\ hello_payload' = Some(r.payload)
            /\ startupPc' = "identify"
            /\ startupLog' = Append(startupLog, Log("hello", shard_id))
            /\ UNCHANGED panics
       ELSE /\ startupPc' = "panicked"
            /\ panics' = panics \cup {Panic("startup", shard_id)}
            /\ startupLog' = Append(startupLog, Log("hello_failed", shard_id))
            /\ UNCHANGED hello_payload
    /\ UNCHANGED <<startupFrame, shard_id, cooldownWake, shard_map, now, connection,
                   sink_channel, connection_identifier, sequence_identifier, heartbeat,
                   receiver, dispatcher, send_tasks, sink, wire, emitted, observed, decode_history>>

\* mutant: shard_total is given the shard's own index
NewConnectionIdentifierOwnIndex(id, total, hello) ==
    [shard_id |-> id, shard_total |-> id,
     heartbeat_interval |-> hello.data.heartbeat_interval]

\* GatewayConnectionIdentifier { shard_id, shard_total, heartbeat_interval, .. }
NewConnectionIdentifier(id, total, hello) ==
    [shard_id |-> id, shard_total |-> total,
     heartbeat_interval |-> hello.data.heartbeat_interval]

\* mutant: the Identify command is never sent into the channel
AddShardIdentifyNotSent ==
    /\ startupPc = "identify"
    /\ connection_identifier' = [connection_identifier EXCEPT ![shard_id] =
           Some([shard_id |-> shard_id, shard_total |-> shard_amount,
                 heartbeat_interval |-> Unwrap(hello_payload).data.heartbeat_interval])]
    /\ sequence_identifier' = [sequence_identifier EXCEPT ![shard_id] = 0]
    /\ startupPc' = "spawn"
    /\ startupLog' = Append(startupLog, Log("identify", shard_id))
    /\ UNCHANGED <<startupFrame, shard_id, cooldownWake, hello_payload, shard_map, now,
                   panics, connection, read_stream, sink_channel, heartbeat, receiver,
                   dispatcher, send_tasks, sink, wire, emitted, observed, first_item, decode_history>>

\* the connection identifier, and the Identify command sent into the channel
AddShardIdentify ==
    /\ startupPc = "identify"
    /\ Len(sink_channel[shard_id]) < SinkChannelCapacity
    /\ connection_identifier' = [connection_identifier EXCEPT ![shard_id] =
           Some(NewConnectionIdentifier(shard_id, shard_amount, Unwrap(hello_payload)))]
    /\ sequence_identifier' = [sequence_identifier EXCEPT ![shard_id] = 0]
    /\ sink_channel' = [sink_channel EXCEPT ![shard_id] =
           Append(@, IdentifyCommand(shard_id, shard_amount))]
    /\ startupPc' = "spawn"
    /\ startupLog' = Append(startupLog, Log("identify", shard_id))
    /\ UNCHANGED <<startupFrame, shard_id, cooldownWake, hello_payload, shard_map, now,
                   panics, connection, read_stream, heartbeat, receiver, dispatcher,
                   send_tasks, sink, wire, emitted, observed, first_item, decode_history>>

\* mutant: only the dispatcher is spawned before the shard is registered
AddShardSpawnDispatcherOnly ==
    /\ startupPc = "spawn"
    /\ dispatcher' = [dispatcher EXCEPT ![shard_id] = "recv"]
    /\ startupPc' = "register"
    /\ startupLog' = Append(startupLog, Log("spawn", shard_id))
    /\ UNCHANGED <<startupFrame, shard_id, cooldownWake, hello_payload, shard_map, now,
                   panics, connection, read_stream, sink_channel, connection_identifier,
                   sequence_identifier, heartbeat, receiver, send_tasks, sink, wire,
                   emitted, observed, first_item, decode_history>>

\* the three tokio::spawn of add_shard_to_map
AddShardSpawn ==
    /\ startupPc = "spawn"
    /\ dispatcher' = [dispatcher EXCEPT ![shard_id] = "recv"]
    /\ heartbeat' = [heartbeat EXCEPT ![shard_id].pc = "start"]
    /\ receiver' = [receiver EXCEPT ![shard_id] = "next"]
    /\ startupPc' = "register"
    /\ startupLog' = Append(startupLog, Log("spawn", shard_id))
    /\ UNCHANGED <<startupFrame, shard_id, cooldownWake, hello_payload, shard_map, now,
                   panics, connection, read_stream, sink_channel, connection_identifier,
                   sequence_identifier, send_tasks, sink, wire, emitted, observed, first_item, decode_history>>

\* HashMap::insert(key, value): an entry under the same key is replaced
MapInsert(map, key, value) ==
    [k \in (DOMAIN map) \cup {key} |-> IF k = key THEN value ELSE map[k]]

\* mutant: the loop variable advances by two
AddShardRegisterSkip ==
    /\ startupPc = "register"
    /\ shard_map' = [k \in (DOMAIN shard_map) \cup {shard_id} |->
                        IF k = shard_id
                        THEN [connection_id |-> Unwrap(connection_identifier[shard_id])]
                        ELSE shard_map[k]]
    /\ shard_id' = shard_id + 2
    /\ hello_payload' = None
    /\ startupPc' = "loop"
    /\ startupLog' = Append(startupLog, Log("register", shard_id))
    /\ UNCHANGED <<startupFrame, cooldownWake, now, panics, shardVars>>

\* mutant: every shard is inserted under the key 0
AddShardRegisterSameKey ==
    /\ startupPc = "register"
    /\ shard_map' = [k \in (DOMAIN shard_map) \cup {0} |->
                        IF k = 0
                        THEN [connection_id |-> Unwrap(connection_identifier[shard_id])]
                        ELSE shard_map[k]]
    /\ shard_id' = shard_id + 1
    /\ hello_payload' = None
    /\ startupPc' = "loop"
    /\ startupLog' = Append(startupLog, Log("register", shard_id))
    /\ UNCHANGED <<startupFrame, cooldownWake, now, panics, shardVars>>

\* self.write().await, the insert, Ok(()), and the loop's next shard_id
AddShardRegister ==
    /\ startupPc = "register"
    /\ shard_map' = MapInsert(shard_map, shard_id,
                              [connection_id |-> Unwrap(connection_identifier[shard_id])])
    /\ shard_id' = shard_id + 1
    /\ hello_payload' = None
    /\ startupPc' = "loop"
    /\ startupLog' = Append(startupLog, Log("register", shard_id))
    /\ UNCHANGED <<startupFrame, cooldownWake, now, panics, shardVars>>

(***************************************************************************)
(* Gateway::heartbeat                                                      *)
(***************************************************************************)
HeartbeatInterval(i) == Unwrap(connection_identifier[i]).heartbeat_interval

\* Duration::mul_f32(heartbeat_interval, jitter) for jitter = k / JitterDen,
\* rounded to the nearest millisecond
MulF32(interval, k) == (2 * interval * k + JitterDen) \div (2 * JitterDen)

\* the jitter is drawn and the first sleep begins
HeartbeatStart(i, k) ==
    /\ heartbeat[i].pc = "start"
    /\ heartbeat' = [heartbeat EXCEPT ![i] =
           [@ EXCEPT !.pc = "sleep",
                     !.delay = MulF32(HeartbeatInterval(i), k),
                     !.wake = now + MulF32(HeartbeatInterval(i), k),
                     !.since = now]]
    /\ UNCHANGED <<sharding_option, gateway_bot_response, http_response, heartbeat_budget, elevatePc, elevate_result, now, panics, startupVars,
                   connection, read_stream, sink_channel, connection_identifier,
                   sequence_identifier, receiver, dispatcher, send_tasks, sink, wire,
                   emitted, observed, first_item, decode_history>>

\* mutant: the loop goes on only while the connection is open
HeartbeatLoadWhileOpen(i) ==
    /\ heartbeat[i].pc = "sleep"
    /\ now >= heartbeat[i].wake
    /\ emitted[i].count < heartbeat_budget
    /\ connection[i] = "open"
    /\ heartbeat' = [heartbeat EXCEPT ![i] =
           [@ EXCEPT !.pc = "send", !.previous_sequence_number = sequence_identifier[i]]]
    /\ UNCHANGED <<sharding_option, gateway_bot_response, http_response, heartbeat_budget, elevatePc, elevate_result, now, panics, startupVars,
                   connection, read_stream, sink_channel, connection_identifier,
                   sequence_identifier, receiver, dispatcher, send_tasks, sink, wire,
                   emitted, observed, first_item, decode_history>>

\* the sleep is over: sequence_identifier.load(Ordering::Acquire)
HeartbeatLoad(i) ==
    /\ heartbeat[i].pc = "sleep"
    /\ now >= heartbeat[i].wake
    /\ emitted[i].count < heartbeat_budget
    /\ heartbeat' = [heartbeat EXCEPT ![i] =
           [@ EXCEPT !.pc = "send", !.previous_sequence_number = sequence_identifier[i]]]
    /\ UNCHANGED <<sharding_option, gateway_bot_response, http_response, heartbeat_budget, elevatePc, elevate_result, now, panics, startupVars,
                   connection, read_stream, sink_channel, connection_identifier,
                   sequence_identifier, receiver, dispatcher, send_tasks, sink, wire,
                   emitted, observed, first_item, decode_history>>

\* the channel is closed once its Receiver is dropped, which is when the
\* dispatcher task has ended
ChannelClosed(i) == dispatcher[i] = "done"

\* mutant: the loop does not sleep between two heartbeats
HeartbeatSendNoSleep(i) ==
    /\ heartbeat[i].pc = "send"
    /\ Len(sink_channel[i]) < SinkChannelCapacity
    /\ sink_channel' = [sink_channel EXCEPT ![i] =
           Append(@, [cmd |-> "Heartbeat",
                      payload |-> [opcode |-> OpHeartbeat,
                                   data |-> <<heartbeat[i].previous_sequence_number>>,
                                   sequence_number |-> None]])]
    /\ emitted' = [emitted EXCEPT ![i] =
           [count |-> @.count + 1,
            last |-> Some([seq |-> heartbeat[i].previous_sequence_number,
                           observed |-> observed[i],
                           delay |-> heartbeat[i].delay,
                           waited |-> now - heartbeat[i].since])]]
    /\ heartbeat' = [heartbeat EXCEPT ![i] =
           [@ EXCEPT !.pc = "sleep", !.delay = 0, !.wake = now, !.since = now]]
    /\ UNCHANGED <<sharding_option, gateway_bot_response, http_response, heartbeat_budget, elevatePc, elevate_result, now, panics, startupVars,
                   connection, read_stream, connection_identifier,
                   sequence_identifier, receiver, dispatcher, send_tasks, sink, wire,
                   observed, first_item, decode_history>>

\* mutant: the send does not wait for room in the channel
HeartbeatSendUnbounded(i) ==
    /\ heartbeat[i].pc = "send"
    /\ sink_channel' = [sink_channel EXCEPT ![i] =
           Append(@, [cmd |-> "Heartbeat",
                      payload |-> [opcode |-> OpHeartbeat,
                                   data |-> <<heartbeat[i].previous_sequence_number>>,
                                   sequence_number |-> None]])]
    /\ emitted' = [emitted EXCEPT ![i] =
           [count |-> @.count + 1,
            last |-> Some([seq |-> heartbeat[i].previous_sequence_number,
                           observed |-> observed[i],
                           delay |-> heartbeat[i].delay,
                           waited |-> now - heartbeat[i].since])]]
    /\ heartbeat' = [heartbeat EXCEPT ![i] =
           [@ EXCEPT !.pc = "sleep",
                     !.delay = Unwrap(connection_identifier[i]).heartbeat_interval,
                     !.wake = now + Unwrap(connection_identifier[i]).heartbeat_interval,
                     !.since = now]]
    /\ UNCHANGED <<sharding_option, gateway_bot_response, http_response, heartbeat_budget,
                   elevatePc, elevate_result, now, panics, startupVars,
                   connection, read_stream, connection_identifier,
                   sequence_identifier, receiver, dispatcher, send_tasks, sink, wire,
                   observed, first_item, decode_history>>

\* gateway_sink_sender.send(Heartbeat).await.expect(..), then sleep(heartbeat_interval);
\* send waits while the channel is full
HeartbeatSend(i) ==
    /\ heartbeat[i].pc = "send"
    /\ IF ChannelClosed(i)
       THEN /\ heartbeat' = [heartbeat EXCEPT ![i].pc = "panicked"]
            /\ panics' = panics \cup {Panic("heartbeat", i)}
            /\ UNCHANGED <<sink_channel, emitted>>
       ELSE /\ Len(sink_channel[i]) < SinkChannelCapacity
            /\ sink_channel' = [sink_channel EXCEPT ![i] =
                   Append(@, HeartbeatCommand(heartbeat[i].previous_sequence_number))]
            /\ emitted' = [emitted EXCEPT ![i] =
                   [count |-> @.count + 1,
                    last |-> Some([seq |-> heartbeat[i].previous_sequence_number,
                                   observed |-> observed[i],
                                   delay |-> heartbeat[i].delay,
                                   waited |-> now - heartbeat[i].since])]]
            /\ heartbeat' = [heartbeat EXCEPT ![i] =
                   [@ EXCEPT !.pc = "sleep",
                             !.delay = HeartbeatInterval(i),
                             !.wake = now + HeartbeatInterval(i),
                             !.since = now]]
            /\ UNCHANGED panics
    /\ UNCHANGED <<sharding_option, gateway_bot_response, http_response, heartbeat_budget, elevatePc, elevate_result, now, startupVars,
                   connection, read_stream, connection_identifier,
                   sequence_identifier, receiver, dispatcher, send_tasks, sink, wire,
                   observed, first_item, decode_history>>

(***************************************************************************)
(* Gateway::recieve_gateway_events                                         *)
(***************************************************************************)
\* while let _payload = read_stream.next().await {}: the pattern matches
\* whatever next() yields, the item is dropped and the loop goes on
ReceiverNext(i, item) ==
    /\ receiver[i] = "next"
    /\ item \in StreamItems(i)
    /\ read_stream' = [read_stream EXCEPT ![i] = StreamAfter(@, item)]
    /\ observed' = [observed EXCEPT ![i] = ObservedAfter(@, item)]
    /\ decode_history' = [decode_history EXCEPT ![i] = DecodeHistoryAfter(@, item)]
    /\ UNCHANGED <<sharding_option, gateway_bot_response, http_response, heartbeat_budget, elevatePc, elevate_result, now, panics, startupVars,
                   connection, sink_channel, connection_identifier,
                   sequence_identifier, heartbeat, receiver, dispatcher, send_tasks,
                   sink, wire, emitted, first_item>>

(***************************************************************************)
(* process_gateway_send_commands                                           *)
(***************************************************************************)
\* mutant: the dispatcher takes the next command only after every earlier send
DispatcherRecvAfterSend(i) ==
    /\ dispatcher[i] = "recv"
    /\ sink_channel[i] # <<>>
    /\ \A t \in DOMAIN send_tasks[i] : send_tasks[i][t].pc \in {"done", "panicked"}
    /\ sink_channel' = [sink_channel EXCEPT ![i] = Tail(@)]
    /\ send_tasks' = [send_tasks EXCEPT ![i] =
           Append(@, [command |-> Head(sink_channel[i]), pc |-> "serialize"])]
    /\ UNCHANGED <<sharding_option, gateway_bot_response, http_response, heartbeat_budget, elevatePc, elevate_result, now, panics, startupVars,
                   connection, read_stream, connection_identifier,
                   sequence_identifier, heartbeat, receiver, dispatcher, sink, wire,
                   emitted, observed, first_item, decode_history>>

\* sink_channel_reciever.recv() yielded Some(command): a send task is spawned
DispatcherRecv(i) ==
    /\ dispatcher[i] = "recv"
    /\ sink_channel[i] # <<>>
    /\ sink_channel' = [sink_channel EXCEPT ![i] = Tail(@)]
    /\ send_tasks' = [send_tasks EXCEPT ![i] =
           Append(@, [command |-> Head(sink_channel[i]), pc |-> "serialize"])]
    /\ UNCHANGED <<sharding_option, gateway_bot_response, http_response, heartbeat_budget, elevatePc, elevate_result, now, panics, startupVars,
                   connection, read_stream, connection_identifier,
                   sequence_identifier, heartbeat, receiver, dispatcher, sink, wire,
                   emitted, observed, first_item, decode_history>>

\* Payload::serialize_to_message: the JSON text of {op, d, s, t}
SerializeToMessage(payload) ==
    [json |-> TRUE, op |-> payload.opcode, d |-> payload.data, s |-> payload.sequence_number]

\* tokio's Mutex::lock: taken at once when free, else the task queues up
SinkLock(sk, t) ==
    IF sk.holder = 0 /\ sk.waiters = <<>>
    THEN [sk EXCEPT !.holder = t]
    ELSE [sk EXCEPT !.waiters = Append(@, t)]

\* the guard is dropped: the lock goes to the longest waiting task
SinkUnlock(sk) ==
    IF sk.waiters = <<>>
    THEN [sk EXCEPT !.holder = 0]
    ELSE [holder |-> Head(sk.waiters), waiters |-> Tail(sk.waiters)]

\* mutant: a send task asks for the sink only after every task spawned before it
SendSerializeInOrder(i, t) ==
    /\ t \in DOMAIN send_tasks[i]
    /\ send_tasks[i][t].pc = "serialize"
    /\ \A u \in 1 .. (t - 1) : send_tasks[i][u].pc # "serialize"
    /\ send_tasks' = [send_tasks EXCEPT ![i][t].pc = "write"]
    /\ sink' = [sink EXCEPT ![i] = SinkLock(@, t)]
    /\ UNCHANGED <<sharding_option, gateway_bot_response, http_response, heartbeat_budget, elevatePc, elevate_result, now, panics, startupVars,
                   connection, read_stream, sink_channel, connection_identifier,
                   sequence_identifier, heartbeat, receiver, dispatcher, wire,
                   emitted, observed, first_item, decode_history>>

\* a send task serializes its command and asks for the sink
SendSerialize(i, t) ==
    /\ t \in DOMAIN send_tasks[i]
    /\ send_tasks[i][t].pc = "serialize"
    /\ send_tasks' = [send_tasks EXCEPT ![i][t].pc = "write"]
    /\ sink' = [sink EXCEPT ![i] = SinkLock(@, t)]
    /\ UNCHANGED <<sharding_option, gateway_bot_response, http_response, heartbeat_budget, elevatePc, elevate_result, now, panics, startupVars,
                   connection, read_stream, sink_channel, connection_identifier,
                   sequence_identifier, heartbeat, receiver, dispatcher, wire,
                   emitted, observed, first_item, decode_history>>

\* what the connection is handed: a message goes out in two parts
Fragment(t, part, message) == [task |-> t, part |-> part, message |-> message]

\* mutant: the task writes without waiting for the lock
SendStartUnlocked(i, t) ==
    /\ t \in DOMAIN send_tasks[i]
    /\ send_tasks[i][t].pc = "write"
    /\ connection[i] = "open"
    /\ wire' = [wire EXCEPT ![i] =
           Append(@, [task |-> t, part |-> "head",
                      message |-> SerializeToMessage(send_tasks[i][t].command.payload)])]
    /\ send_tasks' = [send_tasks EXCEPT ![i][t].pc = "writing"]
    /\ UNCHANGED <<sharding_option, gateway_bot_response, http_response, heartbeat_budget, elevatePc, elevate_result, now, panics, startupVars,
                   connection, read_stream, sink_channel, connection_identifier,
                   sequence_identifier, heartbeat, receiver, dispatcher, sink,
                   emitted, observed, first_item, decode_history>>

\* lock().await has returned the guard: send(message) begins to put the
\* message on the connection; a closed connection makes send fail and the
\* expect panic, which drops the guard
SendStart(i, t) ==
    /\ t \in DOMAIN send_tasks[i]
    /\ send_tasks[i][t].pc = "write"
    /\ sink[i].holder = t
    /\ IF connection[i] = "open"
       THEN /\ wire' = [wire EXCEPT ![i] =
                   Append(@, Fragment(t, "head",
                       SerializeToMessage(send_tasks[i][t].command.payload)))]
            /\ send_tasks' = [send_tasks EXCEPT ![i][t].pc = "writing"]
            /\ UNCHANGED <<panics, sink>>
       ELSE /\ send_tasks' = [send_tasks EXCEPT ![i][t].pc = "panicked"]
            /\ panics' = panics \cup {Panic("send", i)}
            /\ sink' = [sink EXCEPT ![i] = SinkUnlock(@)]
            /\ UNCHANGED wire
    /\ UNCHANGED <<sharding_option, gateway_bot_response, http_response, heartbeat_budget, elevatePc, elevate_result, now, startupVars,
                   connection, read_stream, sink_channel, connection_identifier,
                   sequence_identifier, heartbeat, receiver, dispatcher,
                   emitted, observed, first_item, decode_history>>

\* SendStart with the clock reading taken down in the fragment, for the
\* questions about when a message goes out
SendStartAt(i, t) ==
    /\ t \in DOMAIN send_tasks[i]
    /\ send_tasks[i][t].pc = "write"
    /\ sink[i].holder = t
    /\ IF connection[i] = "open"
       THEN /\ wire' = [wire EXCEPT ![i] =
                   Append(@, [task |-> t, part |-> "head", at |-> now,
                              message |-> SerializeToMessage(send_tasks[i][t].command.payload)])]
            /\ send_tasks' = [send_tasks EXCEPT ![i][t].pc = "writing"]
            /\ UNCHANGED <<panics, sink>>
       ELSE /\ send_tasks' = [send_tasks EXCEPT ![i][t].pc = "panicked"]
            /\ panics' = panics \cup {Panic("send", i)}
            /\ sink' = [sink EXCEPT ![i] = SinkUnlock(@)]
            /\ UNCHANGED wire
    /\ UNCHANGED <<sharding_option, gateway_bot_response, http_response, heartbeat_budget, elevatePc, elevate_result, now, startupVars,
                   connection, read_stream, sink_channel, connection_identifier,
                   sequence_identifier, heartbeat, receiver, dispatcher,
                   emitted, observed, first_item, decode_history>>

\* mutant: a failed write takes the dispatcher of every shard down with it
SendWriteFailsAll(i, t) ==
    /\ t \in DOMAIN send_tasks[i]
    /\ send_tasks[i][t].pc = "writing"
    /\ IF connection[i] = "open"
       THEN /\ wire' = [wire EXCEPT ![i] =
                   Append(@, [task |-> t, part |-> "tail",
                              message |-> SerializeToMessage(send_tasks[i][t].command.payload)])]
            /\ send_tasks' = [send_tasks EXCEPT ![i][t].pc = "done"]
            /\ UNCHANGED <<panics, dispatcher>>
       ELSE /\ send_tasks' = [send_tasks EXCEPT ![i][t].pc = "panicked"]
            /\ panics' = panics \cup {Panic("send", i)}
            /\ dispatcher' = [j \in ShardIds |->
                                 IF dispatcher[j] = "none" THEN "none" ELSE "done"]
            /\ UNCHANGED wire
    /\ sink' = [sink EXCEPT ![i] = SinkUnlock(@)]
    /\ UNCHANGED <<sharding_option, gateway_bot_response, http_response, heartbeat_budget, elevatePc, elevate_result, now, startupVars,
                   connection, read_stream, sink_channel, connection_identifier,
                   sequence_identifier, heartbeat, receiver,
                   emitted, observed, first_item, decode_history>>

\* mutant: the guard is kept after the send has returned
SendWriteKeepsGuard(i, t) ==
    /\ t \in DOMAIN send_tasks[i]
    /\ send_tasks[i][t].pc = "writing"
    /\ IF connection[i] = "open"
       THEN /\ wire' = [wire EXCEPT ![i] =
                   Append(@, [task |-> t, part |-> "tail",
                              message |-> SerializeToMessage(send_tasks[i][t].command.payload)])]
            /\ send_tasks' = [send_tasks EXCEPT ![i][t].pc = "done"]
            /\ UNCHANGED panics
       ELSE /\ send_tasks' = [send_tasks EXCEPT ![i][t].pc = "panicked"]
            /\ panics' = panics \cup {Panic("send", i)}
            /\ UNCHANGED wire
    /\ UNCHANGED <<sharding_option, gateway_bot_response, http_response, heartbeat_budget, elevatePc, elevate_result, now, startupVars,
                   connection, read_stream, sink_channel, connection_identifier,
                   sequence_identifier, heartbeat, receiver, dispatcher, sink,
                   emitted, observed, first_item, decode_history>>

\* send(message) puts the rest of the message on the connection and returns:
\* the guard is dropped; on a connection closed meanwhile send fails and the
\* expect panics, which drops the guard all the same
SendWrite(i, t) ==
    /\ t \in DOMAIN send_tasks[i]
    /\ send_tasks[i][t].pc = "writing"
    /\ IF connection[i] = "open"
       THEN /\ wire' = [wire EXCEPT ![i] =
                   Append(@, Fragment(t, "tail",
                       SerializeToMessage(send_tasks[i][t].command.payload)))]
            /\ send_tasks' = [send_tasks EXCEPT ![i][t].pc = "done"]
            /\ UNCHANGED panics
       ELSE /\ send_tasks' = [send_tasks EXCEPT ![i][t].pc = "panicked"]
            /\ panics' = panics \cup {Panic("send", i)}
            /\ UNCHANGED wire
    /\ sink' = [sink EXCEPT ![i] = SinkUnlock(@)]
    /\ UNCHANGED <<sharding_option, gateway_bot_response, http_response, heartbeat_budget, elevatePc, elevate_result, now, startupVars,
                   connection, read_stream, sink_channel, connection_identifier,
                   sequence_identifier, heartbeat, receiver, dispatcher,
                   emitted, observed, first_item, decode_history>>

(***************************************************************************)
(* The environment: the peer or the network ends a shard's connection.     *)
(***************************************************************************)
ConnectionClose(i) ==
    /\ connection[i] = "open"
    /\ connection' = [connection EXCEPT ![i] = "closed"]
    /\ UNCHANGED <<sharding_option, gateway_bot_response, http_response, heartbeat_budget, elevatePc, elevate_result, now, panics, startupVars,
                   read_stream, sink_channel, connection_identifier,
                   sequence_identifier, heartbeat, receiver, dispatcher, send_tasks,
                   sink, wire, emitted, observed, first_item, decode_history>>

(***************************************************************************)
(* The clock: it moves to the deadline of a pending sleep.                 *)
(***************************************************************************)
Deadlines ==
    (IF startupPc = "cooldown" THEN {cooldownWake} ELSE {})
        \cup {heartbeat[i].wake : i \in {j \in ShardIds : heartbeat[j].pc = "sleep"}}

Tick ==
    /\ \E t \in Deadlines : t > now /\ now' = t
    /\ UNCHANGED <<sharding_option, gateway_bot_response, http_response, heartbeat_budget, elevatePc, elevate_result, panics, startupVars, shardVars>>

AllStreamItems == {StreamFrame(f) : f \in Frames} \cup {StreamError, StreamClosed}

StartupNext ==
    \/ Elevate
    \/ NewWithShards
    \/ StartupLoop
    \/ \E ok \in BOOLEAN : AddShardConnect(ok)
    \/ \E item \in AllStreamItems : AddShardHello(item)
    \/ AddShardIdentify
    \/ AddShardSpawn
    \/ AddShardRegister

ShardNext ==
    \/ \E i \in ShardIds, k \in 0 .. (JitterDen - 1) : HeartbeatStart(i, k)
    \/ \E i \in ShardIds : HeartbeatLoad(i)
    \/ \E i \in ShardIds : HeartbeatSend(i)
    \/ \E i \in ShardIds, item \in AllStreamItems : ReceiverNext(i, item)
    \/ \E i \in ShardIds : DispatcherRecv(i)
    \/ \E i \in ShardIds, t \in 1 .. (MaxHeartbeats + 1) : SendSerialize(i, t)
    \/ \E i \in ShardIds, t \in 1 .. (MaxHeartbeats + 1) : SendStart(i, t)
    \/ \E i \in ShardIds, t \in 1 .. (MaxHeartbeats + 1) : SendWrite(i, t)

(***************************************************************************)
(* Spec follows new_with_shards and its startup task for every sharding    *)
(* option and every metadata within the bounds.  The loops a shard spawns  *)
(* write nothing the startup task reads (it has left the shard's channel   *)
(* and read half behind when it spawns them), so Spec leaves them          *)
(* unscheduled.                                                            *)
(***************************************************************************)
Next ==
    \/ StartupNext
    \/ StartupCooldownOver
    \/ \E i \in ShardIds : ConnectionClose(i)
    \/ Tick

Spec == Init /\ [][Next]_vars

\* the same, with the scheduling the runtime gives: the startup task is run
\* whenever it can take a step, and the clock reaches every pending deadline
StartupFairness ==
    /\ WF_vars(StartupNext)
    /\ WF_vars(StartupCooldownOver)
    /\ WF_vars(Tick)

SpecStartup == Init /\ [][Next]_vars /\ StartupFairness

(***************************************************************************)
(* SpecShard follows one shard through its handshake and its three loops:  *)
(* the metadata recommends one shard, so the startup task never sleeps.    *)
(***************************************************************************)
InitShard ==
    /\ Init
    /\ http_response = HttpOk
    /\ sharding_option.kind = "Automatic"
    /\ gateway_bot_response = [shards |-> 1, max_concurrency |-> 1, url_ok |-> TRUE]

NextShard ==
    \/ StartupNext
    \/ ShardNext
    \/ \E i \in ShardIds : ConnectionClose(i)
    \/ Tick

SpecShard == InitShard /\ [][NextShard]_vars

(***************************************************************************)
(* SpecHeartbeat follows the outbound side of one shard: the handshake,    *)
(* the heartbeat loop, the dispatcher and its send tasks.  The receiver    *)
(* task is left out: it shares only the read half, which nothing else      *)
(* touches after the handshake, and it writes nothing the others read.     *)
(* The runtime schedules: a task that can take its next step takes it      *)
(* (tokio polls every woken task), and a pending sleep ends.  The peer is  *)
(* under no obligation: the connection may stay open for ever.             *)
(***************************************************************************)
NextHeartbeat ==
    \/ StartupNext
    \/ \E i \in ShardIds, k \in 0 .. (JitterDen - 1) : HeartbeatStart(i, k)
    \/ \E i \in ShardIds : HeartbeatLoad(i)
    \/ \E i \in ShardIds : HeartbeatSend(i)
    \/ \E i \in ShardIds : DispatcherRecv(i)
    \/ \E i \in ShardIds, t \in 1 .. (MaxHeartbeats + 1) : SendSerialize(i, t)
    \/ \E i \in ShardIds, t \in 1 .. (MaxHeartbeats + 1) : SendStart(i, t)
    \/ \E i \in ShardIds, t \in 1 .. (MaxHeartbeats + 1) : SendWrite(i, t)
    \/ \E i \in ShardIds : ConnectionClose(i)
    \/ Tick

HeartbeatFairness ==
    /\ WF_vars(StartupNext)
    /\ WF_vars(Tick)
    /\ WF_vars(\E i \in ShardIds, k \in 0 .. (JitterDen - 1) : HeartbeatStart(i, k))
    /\ WF_vars(\E i \in ShardIds : HeartbeatLoad(i))
    /\ WF_vars(\E i \in ShardIds : HeartbeatSend(i))
    /\ WF_vars(\E i \in ShardIds : DispatcherRecv(i))
    /\ WF_vars(\E i \in ShardIds, t \in 1 .. (MaxHeartbeats + 1) : SendSerialize(i, t))
    /\ WF_vars(\E i \in ShardIds, t \in 1 .. (MaxHeartbeats + 1) : SendStart(i, t))
    /\ WF_vars(\E i \in ShardIds, t \in 1 .. (MaxHeartbeats + 1) : SendWrite(i, t))

SpecHeartbeat == InitShard /\ [][NextHeartbeat]_vars /\ HeartbeatFairness

(***************************************************************************)
(* SpecTwoShards follows two shards side by side: the startup task opens   *)
(* shard 0 and then shard 1 (max_concurrency is above 1, so it does not    *)
(* sleep between them), each shard's dispatcher and send tasks run, and    *)
(* either connection may close at any time.  The heartbeat and receiver    *)
(* tasks are left unscheduled: with a closed connection it is the send     *)
(* tasks that fail.                                                        *)
(***************************************************************************)
InitTwoShards ==
    /\ Init
    /\ http_response = HttpOk
    /\ sharding_option = [kind |-> "SetAmount", amount |-> 2]
    /\ gateway_bot_response =
           [shards |-> 1, max_concurrency |-> MaxConcurrency, url_ok |-> TRUE]

NextTwoShards ==
    \/ StartupNext
    \/ \E i \in ShardIds : DispatcherRecv(i)
    \/ \E i \in ShardIds, t \in 1 .. (MaxHeartbeats + 1) : SendSerialize(i, t)
    \/ \E i \in ShardIds, t \in 1 .. (MaxHeartbeats + 1) : SendStart(i, t)
    \/ \E i \in ShardIds, t \in 1 .. (MaxHeartbeats + 1) : SendWrite(i, t)
    \/ \E i \in ShardIds : ConnectionClose(i)

SpecTwoShards == InitTwoShards /\ [][NextTwoShards]_vars

(***************************************************************************)
(* SpecQueue fills the command queue of one shard: the heartbeat loop goes *)
(* round SinkChannelCapacity + 1 times, so with the Identify there are     *)
(* more commands than the channel holds.  The send tasks of the first two  *)
(* commands are scheduled; the tasks spawned after them are left waiting   *)
(* for the runtime.  The connection stays open.                            *)
(***************************************************************************)
InitQueue ==
    /\ InitState
    /\ heartbeat_budget = SinkChannelCapacity + 1
    /\ sharding_option.kind = "Automatic"
    /\ gateway_bot_response = [shards |-> 1, max_concurrency |-> 1, url_ok |-> TRUE]
    /\ http_response = HttpOk

NextQueue ==
    \/ StartupNext
    \/ \E i \in ShardIds, k \in 0 .. (JitterDen - 1) : HeartbeatStart(i, k)
    \/ \E i \in ShardIds : HeartbeatLoad(i)
    \/ \E i \in ShardIds : HeartbeatSend(i)
    \/ \E i \in ShardIds : DispatcherRecv(i)
    \/ \E i \in ShardIds, t \in 1 .. 2 : SendSerialize(i, t)
    \/ \E i \in ShardIds, t \in 1 .. 2 : SendStart(i, t)
    \/ \E i \in ShardIds, t \in 1 .. 2 : SendWrite(i, t)
    \/ Tick

SpecQueue == InitQueue /\ [][NextQueue]_vars

(***************************************************************************)
(* The session-start quota: up to MaxShards shards in buckets of up to     *)
(* MaxConcurrency, started in turn with the cooldown between the buckets,  *)
(* their dispatchers and the send task of each shard's first command, and  *)
(* the clock.  The heartbeat tasks are left asleep, so the Identify is the *)
(* only command of a shard.                                                *)
(***************************************************************************)
InitQuota ==
    /\ InitState
    /\ heartbeat_budget = 0
    /\ http_response = HttpOk
    /\ sharding_option \in {[kind |-> "SetAmount", amount |-> a] : a \in 1 .. MaxShards}
    /\ gateway_bot_response \in
           {[shards |-> 1, max_concurrency |-> c, url_ok |-> TRUE] : c \in 1 .. MaxConcurrency}

NextQuota ==
    \/ StartupNext
    \/ StartupCooldownOver
    \/ \E i \in ShardIds : DispatcherRecv(i)
    \/ \E i \in ShardIds : SendSerialize(i, 1)
    \/ \E i \in ShardIds : SendStartAt(i, 1)
    \/ \E i \in ShardIds : SendWrite(i, 1)
    \/ Tick

SpecQuota == InitQuota /\ [][NextQuota]_vars

(***************************************************************************)
(* What the claims are stated in.                                          *)
(***************************************************************************)
MaxConcurrencyOf == gateway_bot_response.max_concurrency
Registered == DOMAIN shard_map
LogEntries(ev) == {k \in 1 .. Len(startupLog) : startupLog[k].ev = ev}
IsConnect(e) == e.ev = "connect"
\* the shards connect_async was called for, in the order of the calls
Connects == SelectSeq(startupLog, IsConnect)
CeilDiv(n, b) == (n + b - 1) \div b
\* every command ever sent into shard i's channel, in the order of the sends:
\* those the dispatcher took out already, then those still queued
EnqueuedSoFar(i) ==
    [t \in 1 .. Len(send_tasks[i]) |-> send_tasks[i][t].command] \o sink_channel[i]
\* the policy's shard count, read off the inputs
PolicyShardCount ==
    IF sharding_option.kind = "Automatic"
    THEN gateway_bot_response.shards ELSE sharding_option.amount

(***************************************************************************)
(* C1: for n > 0 shards and bucket size b > 0, a startup in which every    *)
(* shard open succeeded has slept exactly ceil(n / b) - 1 times, and every *)
(* finished sleep took at least 5000 ms.                                   *)
(***************************************************************************)
C1_CooldownWaits ==
    /\ \A k \in LogEntries("woke") : startupLog[k].ms >= 5000
    /\ (startupPc = "done" /\ shard_amount > 0 /\ MaxConcurrencyOf > 0)
          => /\ Registered = 0 .. (shard_amount - 1)
             /\ Cardinality(LogEntries("sleep")) = CeilDiv(shard_amount, MaxConcurrencyOf) - 1
             /\ Cardinality(LogEntries("woke")) = CeilDiv(shard_amount, MaxConcurrencyOf) - 1

C1_Witness ==
    /\ startupPc = "done"
    /\ shard_amount = 3
    /\ MaxConcurrencyOf = 2
    /\ Cardinality(LogEntries("woke")) = 1

(***************************************************************************)
(* C2: connect_async for shard i comes right after a finished sleep if and *)
(* only if i > 0 and i % max_concurrency = 0; a sleep is followed by its   *)
(* end and then by that shard's connect, and while the task sleeps the     *)
(* shard has no connection.                                                *)
(***************************************************************************)
C2_WaitBeforeBucket ==
    /\ \A k \in LogEntries("connect") :
          LET i == startupLog[k].shard IN
          (k > 1 /\ startupLog[k - 1].ev = "woke" /\ startupLog[k - 1].shard = i)
              <=> (i > 0 /\ MaxConcurrencyOf > 0 /\ i % MaxConcurrencyOf = 0)
    /\ \A k \in LogEntries("sleep") :
          IF k = Len(startupLog)
          THEN startupPc = "cooldown" /\ connection[startupLog[k].shard] = "none"
          ELSE startupLog[k + 1].ev = "woke" /\ startupLog[k + 1].shard = startupLog[k].shard
    /\ \A k \in LogEntries("woke") :
          /\ k > 1 /\ startupLog[k - 1].ev = "sleep"
          /\ k < Len(startupLog) =>
                startupLog[k + 1].ev = "connect" /\ startupLog[k + 1].shard = startupLog[k].shard

\* 3 shards, max_concurrency 1: no wait before shard 0, one before shard 1 and shard 2
C2_Witness ==
    /\ startupPc = "done"
    /\ shard_amount = 3
    /\ MaxConcurrencyOf = 1
    /\ startupLog[1].ev = "connect" /\ startupLog[1].shard = 0
    /\ \A i \in {1, 2} : \E k \in LogEntries("connect") :
          startupLog[k].shard = i /\ startupLog[k - 1].ev = "woke"
    /\ Cardinality(LogEntries("woke")) = 2

(***************************************************************************)
(* C3: connect_async is called for the shards 0, 1, 2, ... in this order,  *)
(* and the connect of shard i > 0 comes after shard i - 1 was registered:  *)
(* while a shard is being opened, exactly the shards before it are in the  *)
(* map.                                                                    *)
(***************************************************************************)
C3_OneAtATimeInOrder ==
    /\ \A k \in 1 .. Len(Connects) : Connects[k].shard = k - 1
    /\ \A k \in LogEntries("connect") :
          startupLog[k].shard > 0 =>
              \E j \in 1 .. (k - 1) :
                  /\ startupLog[j].ev = "register"
                  /\ startupLog[j].shard = startupLog[k].shard - 1
    /\ startupPc \in {"hello", "identify", "spawn", "register"}
          => Registered = 0 .. (shard_id - 1)

\* shards 0 and 1 share a bucket, shard 2 is alone in the next
C3_Witness ==
    /\ startupPc = "done"
    /\ shard_amount = 3
    /\ MaxConcurrencyOf = 2
    /\ Len(Connects) = 3
    /\ Registered = {0, 1, 2}

(***************************************************************************)
(* C4: with SetAmount(0), new_with_shards returns an error, and in no      *)
(* state is there a startup task, a connection attempt or a registered     *)
(* shard.                                                                  *)
(***************************************************************************)
C4_FixedZeroFails ==
    (sharding_option.kind = "SetAmount" /\ sharding_option.amount = 0)
        => /\ result \in {"none", "Err"}
           /\ mainPc = "returned" => result = "Err"
           /\ startupPc = "none"
           /\ startupLog = <<>>
           /\ Registered = {}
           /\ \A i \in ShardIds : connection[i] = "none"

C4_Witness ==
    /\ sharding_option.kind = "SetAmount"
    /\ sharding_option.amount = 0
    /\ gateway_bot_response.shards = 2
    /\ gateway_bot_response.url_ok
    /\ mainPc = "returned"

(***************************************************************************)
(* C5: once new_with_shards has returned Ok, the count the startup loop    *)
(* runs to is the recommended count under Automatic and n under            *)
(* SetAmount(n); every connection identifier and every map entry has it as *)
(* shard_total, every Identify carries it, and a finished loop has called  *)
(* connect_async exactly that many times.                                  *)
(***************************************************************************)
C5_ShardCount ==
    result = "Ok" =>
        /\ shard_amount = PolicyShardCount
        /\ sharding_option.kind = "SetAmount" => shard_amount > 0
        /\ \A i \in ShardIds :
              /\ connection_identifier[i] # None =>
                    Unwrap(connection_identifier[i]).shard_total = PolicyShardCount
              /\ \A k \in 1 .. Len(sink_channel[i]) :
                    sink_channel[i][k].cmd = "Identify" =>
                        sink_channel[i][k].payload.data = <<i, PolicyShardCount>>
        /\ \A k \in Registered : shard_map[k].connection_id.shard_total = PolicyShardCount
        /\ startupPc = "done" => Len(Connects) = PolicyShardCount

\* the user's count (2) differs from the recommended one (3)
C5_Witness ==
    /\ sharding_option.kind = "SetAmount"
    /\ sharding_option.amount = 2
    /\ gateway_bot_response.shards = 3
    /\ startupPc = "done"
    /\ Registered = {0, 1}
    /\ shard_map[1].connection_id.shard_total = 2

C7_Original ==
    \A i \in ShardIds :
        connection_identifier[i] # None =>
            /\ first_item[i] # None
            /\ Unwrap(first_item[i]).kind = "frame"
            /\ Unwrap(first_item[i]).frame \in HelloFrames

(***************************************************************************)
(* C8: the connection identifier of a shard has the heartbeat_interval of  *)
(* the frame read as Hello; as long as the receiver task was handed no     *)
(* sequence number, sequence_identifier is 0; and the first command ever   *)
(* sent into the shard's channel is its Identify.                          *)
(***************************************************************************)
C8_HandshakeResult ==
    \A i \in ShardIds :
        /\ connection_identifier[i] # None =>
              /\ first_item[i] # None
              /\ Unwrap(first_item[i]).kind = "frame"
              /\ Unwrap(first_item[i]).frame.hb =
                     Some(Unwrap(connection_identifier[i]).heartbeat_interval)
              /\ observed[i] = None => sequence_identifier[i] = 0
        /\ EnqueuedSoFar(i) # <<>> =>
              /\ Head(EnqueuedSoFar(i)).cmd = "Identify"
              /\ Head(EnqueuedSoFar(i)).payload.opcode = 2
              /\ Head(EnqueuedSoFar(i)).payload.data = <<i, shard_amount>>
        /\ emitted[i].count > 0 => Len(EnqueuedSoFar(i)) > emitted[i].count

\* a heartbeat was sent into the channel of shard 0, behind the Identify
C8_Witness ==
    /\ connection_identifier[0] # None
    /\ Unwrap(connection_identifier[0]).heartbeat_interval = IntervalUnit
    /\ Unwrap(first_item[0]).frame \in HelloFrames
    /\ emitted[0].count = 1
    /\ Len(EnqueuedSoFar(0)) = 2
    /\ EnqueuedSoFar(0)[2].cmd = "Heartbeat"

(***************************************************************************)
(* C9, as claimed: a heartbeat carries the last sequence number the        *)
(* receiver task was handed before the heartbeat was submitted.            *)
(***************************************************************************)
C9_Original ==
    \A i \in ShardIds :
        (emitted[i].last # None /\ Unwrap(emitted[i].last).observed # None)
            => Unwrap(emitted[i].last).seq = Unwrap(Unwrap(emitted[i].last).observed)

HeartbeatRunning(i) == heartbeat[i].pc \notin {"none", "panicked"}

C13_Original ==
    \A i \in ShardIds :
        observed[i] # None => sequence_identifier[i] = Unwrap(observed[i])

(***************************************************************************)
(* C14  As claimed: a frame that does not decode leaves the receiver loop  *)
(* running, and a frame with a sequence number that arrives after it is    *)
(* processed: the shard's sequence_identifier then holds its number.       *)
(***************************************************************************)
C14_Original ==
    \A i \in ShardIds :
        decode_history[i] = "recovered" =>
            /\ receiver[i] = "next"
            /\ sequence_identifier[i] = Unwrap(observed[i])

(***************************************************************************)
(* C15  As claimed: once next() on a shard's read half has yielded a       *)
(* transport error or the end of the stream to the receiver task, the      *)
(* receiver loop has ended: it is not waiting on next() again.             *)
(***************************************************************************)
C15_Original ==
    \A i \in ShardIds :
        (receiver[i] # "none" /\ read_stream[i].ended) => receiver[i] = "done"

(***************************************************************************)
(* C16  Writes on one shard never interleave.  At most one send task is    *)
(* in the middle of a write; on the wire the two parts of a message are    *)
(* next to each other, a message is the serialization of the command of    *)
(* the one send task that wrote it, and no task writes twice.  A message   *)
(* is cut short only at the very end of the wire, while its task is still  *)
(* writing or after the connection closed under it.                        *)
(***************************************************************************)
Writing(i) == {t \in DOMAIN send_tasks[i] : send_tasks[i][t].pc = "writing"}

C16_WritesNeverInterleave ==
    \A i \in ShardIds :
        /\ Cardinality(Writing(i)) <= 1
        /\ \A k \in DOMAIN wire[i] :
              LET f == wire[i][k] IN
              /\ f.task \in DOMAIN send_tasks[i]
              /\ f.message = SerializeToMessage(send_tasks[i][f.task].command.payload)
              /\ \A j \in DOMAIN wire[i] :
                    (j # k /\ wire[i][j].part = f.part) => wire[i][j].task # f.task
              /\ f.part = "tail" => (k > 1 /\ wire[i][k - 1] = [f EXCEPT !.part = "head"])
              /\ f.part = "head" =>
                    IF k < Len(wire[i])
                    THEN wire[i][k + 1] = [f EXCEPT !.part = "tail"]
                    ELSE \/ f.task \in Writing(i)
                         \/ send_tasks[i][f.task].pc = "panicked" /\ connection[i] = "closed"

\* a task is in the middle of its write while another waits for the lock,
\* after a whole message went out
C16_Witness ==
    /\ Writing(0) # {}
    /\ sink[0].waiters # <<>>
    /\ Len(wire[0]) = 3
    /\ wire[0][2].part = "tail"

(***************************************************************************)
(* C17  Wire order is not bound to enqueue order.  Nothing makes a send    *)
(* task wait for the tasks spawned before it: any task that has not yet    *)
(* asked for the sink can be the next one to ask, and the sink serves in   *)
(* the order of asking.  C17_Witness is the execution the claim names: the *)
(* Identify was enqueued and dequeued first, yet the Heartbeat enqueued    *)
(* after it is on the connection before it.                                *)
(***************************************************************************)
C17_OrderNotEnforced ==
    \A i \in ShardIds : \A t \in DOMAIN send_tasks[i] :
        send_tasks[i][t].pc = "serialize" => ENABLED SendSerialize(i, t)

C17_Witness ==
    /\ Len(send_tasks[0]) >= 2
    /\ send_tasks[0][1].command.cmd = "Identify"
    /\ send_tasks[0][2].command.cmd = "Heartbeat"
    /\ Len(wire[0]) = 4
    /\ wire[0][1].task = 2 /\ wire[0][2].task = 2
    /\ wire[0][2].message.op = OpHeartbeat
    /\ wire[0][3].task = 1 /\ wire[0][4].task = 1
    /\ wire[0][4].message.op = OpIdentify

(***************************************************************************)
(* C18  As claimed: a failed write is fatal to its shard and is surfaced.  *)
(* Once a send task of shard i has failed to write, the dispatcher of      *)
(* shard i dequeues no further command, and no producer submits a further  *)
(* command to shard i as if it were alive.                                 *)
(***************************************************************************)
C18_Original ==
    [][\A i \in ShardIds :
          Panic("send", i) \in panics =>
              /\ Len(send_tasks'[i]) = Len(send_tasks[i])
              /\ emitted'[i] = emitted[i]]_vars

(***************************************************************************)
(* C19  Failures are scoped to one shard.  A step in which shard i fails   *)
(* (its connection closes, one of its send tasks fails to write, its       *)
(* heartbeat task panics) changes nothing of any other shard j: its        *)
(* connection, queue, tasks, sequence number and registry entry stay as    *)
(* they are; and it leaves the startup task where it is.  The startup task *)
(* ends early only by a panic of its own.                                  *)
(***************************************************************************)
ShardState(j) ==
    <<connection[j], read_stream[j], sink_channel[j], connection_identifier[j],
      sequence_identifier[j], heartbeat[j], receiver[j], dispatcher[j],
      send_tasks[j], sink[j], wire[j]>>

Fails(i) ==
    \/ connection[i] = "open" /\ connection'[i] = "closed"
    \/ heartbeat[i].pc # "panicked" /\ heartbeat'[i].pc = "panicked"
    \/ \E t \in DOMAIN send_tasks[i] :
          /\ t \in DOMAIN send_tasks'[i]
          /\ send_tasks[i][t].pc # "panicked"
          /\ send_tasks'[i][t].pc = "panicked"

C19_FailuresScoped ==
    /\ [][\A i \in ShardIds :
            Fails(i) =>
                /\ \A j \in ShardIds \ {i} : ShardState(j)' = ShardState(j)
                /\ shard_map' = shard_map
                /\ <<startupPc, shard_id, shard_amount>>' = <<startupPc, shard_id, shard_amount>>]_vars
    /\ [](startupPc = "panicked" => Panic("startup", shard_id) \in panics)

\* shard 0 died before its Identify went out; shard 1 was opened after it,
\* sent its Identify, and the startup task ran to its end
C19_Witness ==
    /\ Panic("send", 0) \in panics
    /\ wire[0] = <<>>
    /\ startupPc = "done"
    /\ DOMAIN shard_map = {0, 1}
    /\ connection[1] = "open"
    /\ dispatcher[1] = "recv"
    /\ Len(wire[1]) = 2

(***************************************************************************)
(* C20  An unauthorized answer aborts startup.  When the request for       *)
(* gateway/bot is answered 401, elevate returns an error without calling   *)
(* new_with_shards: there is no startup task, no connection attempt and    *)
(* no registered shard, in any state.                                      *)
(***************************************************************************)
C20_UnauthorizedAborts ==
    (http_response.client /\ http_response.sent /\ http_response.status = 401) =>
        /\ elevatePc \in {"request", "returned"}
        /\ elevatePc = "returned" => elevate_result = "Err"
        /\ mainPc = "call" /\ result = "none"
        /\ startupPc = "none"
        /\ startupLog = <<>>
        /\ Registered = {}
        /\ \A i \in ShardIds : connection[i] = "none"

\* elevate has returned on a 401 whose metadata would have asked for two shards
C20_Witness ==
    /\ http_response = [client |-> TRUE, sent |-> TRUE, status |-> 401, body |-> TRUE]
    /\ sharding_option.kind = "Automatic"
    /\ gateway_bot_response = [shards |-> 2, max_concurrency |-> 1, url_ok |-> TRUE]
    /\ elevatePc = "returned"
    /\ elevate_result = "Err"

(***************************************************************************)
(* C21  The registry only grows, by one new key at a time.  A step that    *)
(* changes shard_map inserts one index that was not in it, leaves every    *)
(* entry already there as it is, and the index is that of a shard whose    *)
(* connect and Hello succeeded; no step takes a key out.                   *)
(***************************************************************************)
Opened(id) ==
    /\ connection[id] # "none"
    /\ connection_identifier[id] # None
    /\ \E k \in LogEntries("hello") : startupLog[k].shard = id

C21_InsertedOnce ==
    [][shard_map' # shard_map =>
          \E id \in ShardIds \ DOMAIN shard_map :
              /\ DOMAIN shard_map' = DOMAIN shard_map \cup {id}
              /\ \A k \in DOMAIN shard_map : shard_map'[k] = shard_map[k]
              /\ Opened(id)]_vars

\* both shards are registered and stay so after the connection of shard 0 closed
C21_Witness ==
    /\ shard_amount = 2
    /\ Registered = {0, 1}
    /\ startupPc = "done"
    /\ connection[0] = "closed"

(***************************************************************************)
(* C22  The command queue of a shard is bounded and first in, first out.   *)
(* It never holds more than SinkChannelCapacity commands; a heartbeat      *)
(* whose send finds the channel full waits, and goes in as soon as there   *)
(* is room; every command submitted is in the queue or was dequeued, and   *)
(* the commands leave the queue in the order they went in.                 *)
(***************************************************************************)
Submitted(i) ==
    (IF \E k \in LogEntries("identify") : startupLog[k].shard = i THEN 1 ELSE 0)
        + emitted[i].count

C22_BoundedQueue ==
    /\ [](\A i \in ShardIds :
            /\ Len(sink_channel[i]) <= SinkChannelCapacity
            /\ Len(EnqueuedSoFar(i)) = Submitted(i)
            /\ heartbeat[i].pc = "send" =>
                  (ENABLED HeartbeatSend(i) <=> Len(sink_channel[i]) < SinkChannelCapacity))
    /\ [][\A i \in ShardIds :
            \/ EnqueuedSoFar(i)' = EnqueuedSoFar(i)
            \/ /\ Len(EnqueuedSoFar(i)') = Len(EnqueuedSoFar(i)) + 1
               /\ SubSeq(EnqueuedSoFar(i)', 1, Len(EnqueuedSoFar(i))) = EnqueuedSoFar(i)]_vars

\* the heartbeat that found the channel full has gone in after the
\* dispatcher took one command out, and the channel is full again
C22_Witness ==
    /\ Len(sink_channel[0]) = SinkChannelCapacity
    /\ Len(send_tasks[0]) = 1
    /\ emitted[0].count = SinkChannelCapacity
    /\ send_tasks[0][1].command.cmd = "Identify"

(***************************************************************************)
(* C23  The lifecycle of a shard runs in one order: connect, Hello,        *)
(* connection identifier and Identify, the three spawns, the registry      *)
(* insert.  What the startup task did for a shard is always a beginning    *)
(* of that list (cut short by a failure at most), and a shard in the       *)
(* registry has its connection identifier, its three tasks spawned and     *)
(* its Identify submitted.                                                 *)
(***************************************************************************)
Lifecycle == <<"connect", "hello", "identify", "spawn", "register">>

\* what the startup task did for shard i, in order, failures left out
ShardEvents(i) ==
    LET Ev(e) == e.ev IN
    LET Mine(e) == e.shard = i /\ \E k \in DOMAIN Lifecycle : Lifecycle[k] = e.ev IN
    LET log == SelectSeq(startupLog, Mine) IN
    [k \in DOMAIN log |-> Ev(log[k])]

C23_LifecycleOrder ==
    \A i \in ShardIds :
        LET done == Len(ShardEvents(i)) IN
        /\ done <= Len(Lifecycle)
        /\ ShardEvents(i) = SubSeq(Lifecycle, 1, done)
        /\ connection[i] # "none" => done >= 1
        /\ done >= 2 => connection[i] # "none"
        /\ connection_identifier[i] # None <=> done >= 3
        /\ sink_channel[i] # <<>> => done >= 3
        /\ dispatcher[i] # "none" <=> done >= 4
        /\ heartbeat[i].pc # "none" <=> done >= 4
        /\ receiver[i] # "none" <=> done >= 4
        /\ i \in Registered <=> done = 5
        /\ i \in Registered =>
              \E k \in DOMAIN EnqueuedSoFar(i) : EnqueuedSoFar(i)[k].cmd = "Identify"

\* shard 0 is registered; for shard 1 the loops are spawned, the insert is to come
C23_Witness ==
    /\ Registered = {0}
    /\ shard_id = 1
    /\ startupPc = "register"
    /\ ShardEvents(1) = <<"connect", "hello", "identify", "spawn">>

(***************************************************************************)
(* C24  One Identify per shard, with the shard's own pair.  A shard whose  *)
(* handshake completed has had exactly one Identify submitted to its       *)
(* queue, carrying [i, n] for its index i and the resolved count n; a      *)
(* shard without a completed handshake has had none.  A registered         *)
(* identity has 0 <= shard_id < shard_total, and it is registered under    *)
(* its shard_id.                                                           *)
(***************************************************************************)
Identifies(i) ==
    {k \in DOMAIN EnqueuedSoFar(i) : EnqueuedSoFar(i)[k].cmd = "Identify"}

C24_OneIdentify ==
    \A i \in ShardIds :
        /\ connection_identifier[i] = None => Identifies(i) = {}
        /\ connection_identifier[i] # None =>
              /\ Cardinality(Identifies(i)) = 1
              /\ \A k \in Identifies(i) :
                    /\ EnqueuedSoFar(i)[k].payload.opcode = OpIdentify
                    /\ EnqueuedSoFar(i)[k].payload.data = <<i, shard_amount>>
        /\ i \in Registered =>
              LET id == shard_map[i].connection_id IN
              /\ id.shard_id = i
              /\ 0 <= id.shard_id /\ id.shard_id < id.shard_total
              /\ id.shard_total = shard_amount

\* the last of three shards is registered, its Identify names [2, 3]
C24_Witness ==
    /\ shard_amount = 3
    /\ 2 \in Registered
    /\ shard_map[2].connection_id.shard_total = 3
    /\ sink_channel[2] = <<IdentifyCommand(2, 3)>>

(***************************************************************************)
(* C25  Dequeue is not held up by a send.  Whenever the dispatcher is at   *)
(* its recv and the queue holds a command, it can take that command, also  *)
(* while send tasks hold or wait for the write half; a dequeue touches     *)
(* neither the lock nor the tasks already spawned.  So the commands        *)
(* dequeued but not yet written can outnumber the queue's capacity.        *)
(***************************************************************************)
Unwritten(i) ==
    {t \in DOMAIN send_tasks[i] : send_tasks[i][t].pc \in {"serialize", "write", "writing"}}

C25_DequeueNotBlocked ==
    \A i \in ShardIds :
        (dispatcher[i] = "recv" /\ sink_channel[i] # <<>>) => ENABLED DispatcherRecv(i)

\* one task holds the write half in mid-write, and more commands than the
\* queue can hold have been dequeued behind it
C25_Witness ==
    /\ Writing(0) = {1}
    /\ sink[0].holder = 1
    /\ Cardinality(Unwritten(0)) > SinkChannelCapacity
    /\ sink_channel[0] = <<>>

(***************************************************************************)
(* C26, as claimed: for max_concurrency > 0, no 5-second window holds the  *)
(* transmission of more than max_concurrency Identify messages, counted    *)
(* over all shards.  (A window that holds the most transmissions can be    *)
(* taken to begin at one of them.)                                         *)
(***************************************************************************)
\* the shards whose Identify began to go out at a time in [from, from + 5 s)
IdentifyTransmitted(from) ==
    {i \in ShardIds :
        \E k \in DOMAIN wire[i] :
            /\ wire[i][k].part = "head"
            /\ wire[i][k].message.op = OpIdentify
            /\ wire[i][k].at >= from
            /\ wire[i][k].at < from + CooldownMillis}

TransmissionTimes ==
    UNION {{wire[i][k].at : k \in {h \in DOMAIN wire[i] : wire[i][h].part = "head"}} :
              i \in ShardIds}

C26_Original ==
    MaxConcurrencyOf > 0 =>
        \A from \in TransmissionTimes :
            Cardinality(IdentifyTransmitted(from)) <= MaxConcurrencyOf

(***************************************************************************)
(* C27  new_with_shards does not wait for the shards.  At its return the   *)
(* registry is empty and, on Ok, the startup task is spawned but has done  *)
(* nothing yet; every registration happens after the return.  While the    *)
(* startup task is at work the registry holds exactly the shards before    *)
(* the one in hand, so each partly filled registry 0..k-1 is there to be   *)
(* seen through the returned handle.                                       *)
(***************************************************************************)
StartupInProgress == startupPc \notin {"none", "done", "panicked"}

C27_ReturnsBeforeShards ==
    /\ [](/\ Registered # {} => (mainPc = "returned" /\ result = "Ok")
          /\ StartupInProgress =>
                (mainPc = "returned" /\ result = "Ok" /\ Registered = 0 .. (shard_id - 1)))
    /\ [][(mainPc = "call" /\ mainPc' = "returned") =>
              /\ Registered' = {}
              /\ result' = "Ok" =>
                    (startupPc' = "loop" /\ shard_id' = 0 /\ startupLog' = <<>>)
              /\ result' = "Err" => startupPc' = "none"]_vars

\* the caller has its handle, two of three shards are registered and the
\* third is in its handshake
C27_Witness ==
    /\ mainPc = "returned" /\ result = "Ok"
    /\ shard_amount = 3
    /\ Registered = {0, 1}
    /\ startupPc = "hello" /\ shard_id = 2

(***************************************************************************)
(* C28  The registry is a beginning of 0..n-1.  In every state the         *)
(* registered indices are 0..k-1 for some k <= n, and a shard is           *)
(* registered only when every shard below it is; a failed open leaves the  *)
(* shards before it, and none after it.                                    *)
(***************************************************************************)
C28_RegisteredPrefix ==
    /\ [](/\ Registered = 0 .. (Cardinality(Registered) - 1)
          /\ Cardinality(Registered) <= shard_amount
          /\ \A i \in Registered : \A j \in 0 .. (i - 1) : j \in Registered)
    /\ [][\A i \in Registered' \ Registered : 0 .. (i - 1) \subseteq Registered]_vars

\* the connect of shard 1 of 3 failed: shard 0 is registered, 1 and 2 are not
C28_Witness ==
    /\ shard_amount = 3
    /\ LogEntries("connect_failed") # {}
    /\ startupPc = "panicked"
    /\ Registered = {0}
    /\ connection[1] = "none" /\ connection[2] = "none"

(***************************************************************************)
(* C29  Startup ends with every shard registered.  Unless elevate returned *)
(* an error before the startup task was spawned, a connect or a handshake  *)
(* failed, or max_concurrency is 0, the startup task comes to its end and  *)
(* from then on the registry holds exactly the keys 0..n-1.                *)
(***************************************************************************)
OpenFailed == LogEntries("connect_failed") \cup LogEntries("hello_failed") # {}

AllRegistered == startupPc = "done" /\ Registered = 0 .. (shard_amount - 1)

C29_StartupCompletes ==
    <>[](\/ elevate_result = "Err"
         \/ OpenFailed
         \/ MaxConcurrencyOf = 0
         \/ AllRegistered)

\* three shards in buckets of one: two cooldowns were slept and all are registered
C29_Witness ==
    /\ AllRegistered
    /\ shard_amount = 3
    /\ MaxConcurrencyOf = 1
    /\ now = 2 * CooldownMillis
    /\ ~OpenFailed

(***************************************************************************)
(* C30  A failed Hello leaves nothing of the shard.  For a shard whose     *)
(* handshake failed at the Hello step there is no connection identifier,   *)
(* no command was ever submitted to its queue, none of its three loops     *)
(* runs and it is not in the registry; the failing step itself changes     *)
(* none of these, nor the registry.                                        *)
(***************************************************************************)
HelloFailedShards == {startupLog[k].shard : k \in LogEntries("hello_failed")}

C30_FailedHelloNoTrace ==
    /\ [](\A j \in HelloFailedShards :
              /\ connection_identifier[j] = None
              /\ EnqueuedSoFar(j) = <<>>
              /\ dispatcher[j] = "none"
              /\ heartbeat[j].pc = "none"
              /\ receiver[j] = "none"
              /\ j \notin Registered)
    /\ [][HelloFailedShards' # HelloFailedShards =>
              UNCHANGED <<shard_map, connection_identifier, sink_channel, send_tasks,
                          dispatcher, heartbeat, receiver>>]_vars

\* the first frame of shard 1 of 2 could not be read as a Hello
C30_Witness ==
    /\ shard_amount = 2
    /\ HelloFailedShards = {1}
    /\ first_item[1] # None
    /\ connection[1] = "open"
    /\ connection_identifier[1] = None
    /\ Registered = {0}

(***************************************************************************)
(* C31  Every dequeued command is written once.  A command the dispatcher  *)
(* took out of the queue keeps its send task; the parts of its message     *)
(* are put on the connection at most once each, and a finished task has    *)
(* put exactly one whole message there, the serialization of its command.  *)
(* Under fair scheduling, unless the connection is closed, every send task *)
(* comes to its end, in whatever order the tasks got the write half.       *)
(***************************************************************************)
PartsWritten(i, t, part) ==
    {k \in DOMAIN wire[i] : wire[i][k].task = t /\ wire[i][k].part = part}

WrittenOnce(i, t) ==
    /\ Cardinality(PartsWritten(i, t, "head")) = 1
    /\ Cardinality(PartsWritten(i, t, "tail")) = 1
    /\ \A k \in PartsWritten(i, t, "head") \cup PartsWritten(i, t, "tail") :
           wire[i][k].message = SerializeToMessage(send_tasks[i][t].command.payload)

C31_WrittenExactlyOnce ==
    /\ [](\A i \in ShardIds : \A t \in DOMAIN send_tasks[i] :
              /\ Cardinality(PartsWritten(i, t, "head")) <= 1
              /\ Cardinality(PartsWritten(i, t, "tail")) <= 1
              /\ send_tasks[i][t].pc = "done" => WrittenOnce(i, t)
              /\ send_tasks[i][t].pc \in {"serialize", "write"} =>
                    PartsWritten(i, t, "head") = {})
    /\ [][\A i \in ShardIds :
              /\ Len(send_tasks'[i]) >= Len(send_tasks[i])
              /\ \A t \in DOMAIN send_tasks[i] :
                    send_tasks'[i][t].command = send_tasks[i][t].command]_vars
    /\ <>[](\A i \in ShardIds :
                \/ connection[i] = "closed"
                \/ \A t \in DOMAIN send_tasks[i] :
                      send_tasks[i][t].pc = "done" /\ WrittenOnce(i, t))

\* all commands of the shard are written, the last dequeued first
C31_Witness ==
    /\ connection[0] = "open"
    /\ Len(send_tasks[0]) = MaxHeartbeats + 1
    /\ \A t \in DOMAIN send_tasks[0] : send_tasks[0][t].pc = "done" /\ WrittenOnce(0, t)
    /\ wire[0][1].task = MaxHeartbeats + 1
    /\ sink_channel[0] = <<>>

(***************************************************************************)
(* C32  max_concurrency = 0 stops the startup task at shard 0.  With a     *)
(* resolved shard count of at least 1, max_concurrency = 0 and a gateway   *)
(* URL that parses, new_with_shards returns Ok, and the startup task it    *)
(* spawned gets no further than the bucket test of shard 0: no connect is  *)
(* ever called, no connection is open, nothing is registered, and under    *)
(* fair scheduling the task ends in the panic of the remainder by zero.    *)
(***************************************************************************)
ZeroConcurrency ==
    /\ PolicyShardCount >= 1
    /\ MaxConcurrencyOf = 0
    /\ gateway_bot_response.url_ok

C32_ZeroConcurrencyAborts ==
    /\ [](ZeroConcurrency =>
              /\ mainPc = "returned" =>
                    (result = "Ok" /\ shard_amount >= 1 /\ startupPc \in {"loop", "panicked"})
              /\ shard_id = 0
              /\ Connects = <<>>
              /\ \A i \in ShardIds : connection[i] = "none"
              /\ Registered = {}
              /\ startupPc = "panicked" =>
                    (Panic("startup", 0) \in panics /\ startupLog = <<Log("panic", 0)>>))
    /\ <>[]((ZeroConcurrency /\ mainPc = "returned") => startupPc = "panicked")

\* three shards were asked for, the metadata said max_concurrency 0
C32_Witness ==
    /\ ZeroConcurrency
    /\ shard_amount = 3
    /\ mainPc = "returned" /\ result = "Ok"
    /\ startupPc = "panicked"
    /\ Registered = {}

(***************************************************************************)
(* C33  Automatic with a recommended count of 0 starts nothing.  Under the *)
(* Automatic policy, with 0 recommended shards and a gateway URL that      *)
(* parses, new_with_shards returns Ok with a shard count of 0; the startup *)
(* task does nothing but leave its loop: no bucket test, no connect, no    *)
(* panic, whatever max_concurrency is, and the registry is empty in every  *)
(* state.  Under fair scheduling the task comes to its end.                *)
(***************************************************************************)
AutomaticZero ==
    /\ sharding_option.kind = "Automatic"
    /\ gateway_bot_response.shards = 0
    /\ gateway_bot_response.url_ok

C33_AutomaticZeroIsEmpty ==
    /\ [](AutomaticZero =>
              /\ mainPc = "returned" =>
                    (result = "Ok" /\ shard_amount = 0 /\ startupPc \in {"loop", "done"})
              /\ shard_id = 0
              /\ startupLog = <<>>
              /\ panics = {}
              /\ \A i \in ShardIds : connection[i] = "none"
              /\ Registered = {})
    /\ <>[]((AutomaticZero /\ mainPc = "returned") => startupPc = "done")

\* the startup task is through, and max_concurrency = 0 did no harm
C33_Witness ==
    /\ AutomaticZero
    /\ MaxConcurrencyOf = 0
    /\ mainPc = "returned" /\ result = "Ok"
    /\ startupPc = "done"
    /\ Registered = {}

====
